---- MODULE Spec2Model ----
(***************************************************************************)
(* `flux create source git`: cmd/flux/create_source_git.go.                *)
(*                                                                         *)
(* One invocation of createSourceGitCmdRun is a sequential process whose   *)
(* position is pc.  The Kubernetes API server (the store of Secrets and    *)
(* GitRepository objects), the source-controller that writes the status of *)
(* a GitRepository, the user answering the prompt and the passing of time  *)
(* are its environment.  Time is counted in units of pollInterval.         *)
(***************************************************************************)
EXTENDS Integers, Sequences, FiniteSets, TLC

VARIABLES
    \* flags (package-level variables set by cobra), fixed for a behaviour
    sourceGitURL, sourceGitSecretRef, sourceGitUsername, sourceGitPassword,
    sourceGitSemver, sourceGitTag, sourceGitBranch, export,
    \* locals of createSourceGitCmdRun
    pc, gitRepository, secret, withAuth, pair, err, exported,
    \* the object read by upsertGitRepository (line 295) and by upsertSecret
    existing, existingSecret,
    \* the object the API server sent in answer to the last Get of the poll,
    \* and the error that Get returned
    snapshot, getErr,
    \* the cluster: the Secret and GitRepository objects the API server holds, and
    \* whether anyone but this command has written to it
    secrets, gitrepos, disturbed,
    \* time: now since context.WithTimeout (line 181); pollStart, polls: wait.PollImmediate
    now, pollStart, polls,
    \* the calls this invocation has issued, in order; the invocation's number;
    \* what the invocation before it wrote, and the Secrets this one started with
    calls, run, prev

flagVars  == <<sourceGitURL, sourceGitSecretRef, sourceGitUsername, sourceGitPassword,
               sourceGitSemver, sourceGitTag, sourceGitBranch, export>>
localVars == <<gitRepository, secret, withAuth, pair, err, exported,
               existing, existingSecret, snapshot, getErr>>
timeVars  == <<now, pollStart, polls>>
clusterVars == <<secrets, gitrepos, disturbed>>
vars == <<flagVars, pc, localVars, clusterVars, timeVars, calls, run, prev>>

----------------------------------------------------------------------------
(* Bounds of the model *)

\* the --timeout flag, in units of pollInterval
Timeout == 3
\* most time (in units of pollInterval) spent before polling starts
MaxDelay == 1
\* cap of the API server's resourceVersion counter
MaxRV == 3
\* invocations of the command in one behaviour
MaxRuns == 2

----------------------------------------------------------------------------
(* Values *)

name      == "podinfo"
namespace == "flux-system"
sourceLabels == {"team=dev"}

ReadyCondition == "Ready"
ConditionTrue    == "True"
ConditionFalse   == "False"
ConditionUnknown == "Unknown"

\* condition messages the controller may write, as sequences of characters
Messages == { <<"f">>, <<"%", "d">> }

\* key material generateKeyPair may return, host keys scanHostKey may return
KeyPairs == { [PrivateKey |-> "priv1", PublicKey |-> "pub1"] }
HostKeys == { "hostkey1" }
NoPair == [PrivateKey |-> "", PublicKey |-> ""]

NoErr == [kind |-> "nil", msg |-> <<>>]
Error(k) == [kind |-> k, msg |-> <<>>]
\* errors of the API client
ErrCtx      == Error("context deadline exceeded")
ErrAPI      == Error("api error")
ErrNotFound == Error("not found")
ErrExists   == Error("already exists")
ErrConflict == Error("conflict")
\* wait.ErrWaitTimeout
ErrWaitTimeout == Error("timed out waiting for the condition")

URLs == { "ssh://git@host/org/repo", "https://host/org/repo" }
\* url.Parse(sourceGitURL).Scheme
Scheme(u) == IF u = "ssh://git@host/org/repo" THEN "ssh" ELSE "https"

NoObject == [kind |-> "none"]
NoStatus == [Conditions |-> <<>>, Artifact |-> FALSE]
\* a nil *corev1.LocalObjectReference is <<>>, a pointer to one is <<[Name |-> n]>>
NilRef == <<>>
LocalObjectReference(n) == << [Name |-> n] >>

----------------------------------------------------------------------------
(* The objects built by createSourceGitCmdRun *)

\* the three selectors are set independently of each other
GitRepositoryRefIndependent(semver, tag, branch) ==
    [SemVer |-> semver, Tag |-> tag, Branch |-> branch]

\* lines 159, 164-170: the revision selector of the spec
GitRepositoryRef(semver, tag, branch) ==
    IF semver # ""
      THEN [SemVer |-> semver, Tag |-> "", Branch |-> ""]
      ELSE IF tag # ""
        THEN [SemVer |-> "", Tag |-> tag, Branch |-> ""]
        ELSE [SemVer |-> "", Tag |-> "", Branch |-> branch]

\* lines 148-162: the GitRepository as first built, before any write
NewGitRepository(url, ref) ==
    [kind |-> "GitRepository", name |-> name, namespace |-> namespace,
     uid |-> 0, rv |-> 0, labels |-> sourceLabels,
     spec |-> [URL |-> url, Reference |-> ref, SecretRef |-> NilRef],
     status |-> NoStatus]

\* the host key is left out
SSHStringDataNoHostKey(p, hostKey) ==
    ("identity" :> p.PrivateKey) @@ ("identity.pub" :> p.PublicKey)

\* lines 223-227: the fields of the secret of a generated deploy key
SSHStringData(p, hostKey) ==
    ("identity" :> p.PrivateKey) @@ ("identity.pub" :> p.PublicKey)
        @@ ("known_hosts" :> hostKey)

\* lines 241-244: the fields of the basic-auth secret
BasicAuthStringData(username, password) ==
    ("username" :> username) @@ ("password" :> password)

\* lines 217-228 and 235-245: the Secret handed to upsertSecret
NewSecret(data) ==
    [kind |-> "Secret", name |-> name, namespace |-> namespace,
     uid |-> 0, rv |-> 0, labels |-> sourceLabels, StringData |-> data]

\* the reference is set whether or not a credential was provisioned
SecretRefForAlways(auth, ref) ==
    LocalObjectReference(IF ref # "" THEN ref ELSE name)

\* lines 258-266: the credential reference of the GitRepository that is applied
SecretRefFor(auth, ref) ==
    IF auth
      THEN LocalObjectReference(IF ref # "" THEN ref ELSE name)
      ELSE NilRef

\* the exported GitRepository refers to a Secret of its own name when
\* --secret-ref is not given
ExportSecretRefOwnName(ref) ==
    LocalObjectReference(IF ref # "" THEN ref ELSE name)

\* lines 173-177: the credential reference of the GitRepository that is exported
ExportSecretRef(ref) ==
    IF ref # "" THEN LocalObjectReference(ref) ELSE NilRef

\* the keys of generated deploy keys and of basic authentication
GeneratedKeys == {"identity", "identity.pub", "known_hosts"}
BasicAuthKeys == {"username", "password"}

----------------------------------------------------------------------------
(* fmt.Errorf(c.Message), line 332: the message is the FORMAT, with no      *)
(* arguments.  A format is a sequence of characters; the characters of      *)
(* Messages hold no flag, width or precision, so after a % comes either     *)
(* the end of the format, another % or a verb.                              *)

Chars(str) ==
    CASE str = "NOVERB"  -> <<"%", "!", "(", "N", "O", "V", "E", "R", "B", ")">>
      [] str = "MISSING" -> <<"(", "M", "I", "S", "S", "I", "N", "G", ")">>

RECURSIVE Sprintf(_)
Sprintf(format) ==
    IF format = <<>> THEN <<>>
    ELSE IF Head(format) # "%"
      THEN <<Head(format)>> \o Sprintf(Tail(format))
    ELSE IF Len(format) = 1
      THEN Chars("NOVERB")
    ELSE IF format[2] = "%"
      THEN <<"%">> \o Sprintf(SubSeq(format, 3, Len(format)))
    ELSE <<"%", "!", format[2]>> \o Chars("MISSING")
           \o Sprintf(SubSeq(format, 3, Len(format)))

\* the error of line 332
Errorf(format) == [kind |-> "condition", msg |-> Sprintf(format)]

\* apimeta.FindStatusCondition, line 327: the conditions of that type
FindStatusCondition(conditions, type) ==
    SelectSeq(conditions, LAMBDA c : c.Type = type)

----------------------------------------------------------------------------
(* The API server, as the client calls of the command see it.  A store is   *)
(* a set of objects; names are unique in a namespace.                       *)

Find(store, ns, n) == { o \in store : o.namespace = ns /\ o.name = n }

NextUID(store) ==
    IF store = {} THEN 1
    ELSE 1 + CHOOSE u \in { o.uid : o \in store } : \A o \in store : o.uid <= u

\* the object a Create stores: the server assigns uid and resourceVersion
Created(store, obj) == [obj EXCEPT !.uid = NextUID(store), !.rv = 1]

\* the object an Update of a GitRepository stores: metadata and spec of the
\* request, status of the stored object (status is a subresource); the
\* resourceVersion moves when the object changes
UpdatedGitRepository(cur, obj) ==
    LET new == [cur EXCEPT !.labels = obj.labels, !.spec = obj.spec]
    IN  IF new = cur THEN cur ELSE [new EXCEPT !.rv = cur.rv + 1]

\* the context has no deadline
CtxNeverExpires(t) == FALSE

\* a context is done from its deadline on: context.WithTimeout(.., timeout),
\* line 181.  now counts from that line, and every later call of the command
\* comes some time after it, so a call at now = Timeout finds the context done.
CtxExpired(t) == t >= Timeout

\* the fields of the request are merged into the stored fields
UpdatedSecretMerged(cur, obj) ==
    LET new == [cur EXCEPT !.StringData = obj.StringData @@ cur.StringData]
    IN  IF new = cur THEN cur ELSE [new EXCEPT !.rv = cur.rv + 1]

\* the object an Update of a Secret stores, as upsertSecret asks for it: the
\* fields of the request replace the stored fields
UpdatedSecret(cur, obj) ==
    LET new == [cur EXCEPT !.StringData = obj.StringData]
    IN  IF new = cur THEN cur ELSE [new EXCEPT !.rv = cur.rv + 1]

----------------------------------------------------------------------------
(* Initial states: the flags of one command line, and a cluster that may    *)
(* already hold a Secret and a GitRepository of the command's name.         *)

OldSecret ==
    [kind |-> "Secret", name |-> name, namespace |-> namespace,
     uid |-> 1, rv |-> 1, labels |-> {"old=1"},
     StringData |-> ("username" :> "olduser") @@ ("password" :> "oldpass")
                      @@ ("caFile" :> "oldca")]

OldGitRepository ==
    [kind |-> "GitRepository", name |-> name, namespace |-> namespace,
     uid |-> 1, rv |-> 1, labels |-> {"old=1"},
     spec |-> [URL |-> "https://old/repo",
               Reference |-> [SemVer |-> "", Tag |-> "", Branch |-> "old"],
               SecretRef |-> LocalObjectReference("old-secret")],
     status |-> [Conditions |-> << [Type |-> ReadyCondition, Status |-> ConditionTrue,
                                    Message |-> <<>>] >>,
                 Artifact |-> TRUE]]

Locals ==
    /\ gitRepository = NoObject
    /\ secret = NoObject
    /\ withAuth = FALSE
    /\ pair = NoPair
    /\ err = NoErr
    /\ exported = NoObject
    /\ existing = NoObject
    /\ existingSecret = NoObject
    /\ snapshot = NoObject
    /\ getErr = NoErr
    /\ now = 0
    /\ pollStart = 0
    /\ polls = 0
    /\ calls = <<>>

\* the flags are drawn from the given values of --tag-semver, --tag, --branch
Start(semvers, tags, branches) ==
    /\ sourceGitURL \in URLs
    /\ sourceGitSecretRef \in {"", "my-secret"}
    /\ sourceGitUsername \in {"", "user"}
    /\ sourceGitPassword \in {"", "pass"}
    /\ sourceGitSemver \in semvers
    /\ sourceGitTag \in tags
    /\ sourceGitBranch \in branches
    /\ export \in BOOLEAN
    /\ pc = "start"
    /\ Locals
    /\ secrets \in { {}, {OldSecret} }
    /\ gitrepos \in { {}, {OldGitRepository} }
    /\ disturbed = FALSE
    /\ run = 1
    /\ prev = [repoWrite |-> "none", secretWrite |-> "none", secrets |-> secrets]

\* the command with the default revision selector (--branch=master)
Init == Start({""}, {""}, {"master"})

\* the command with every combination of revision selectors
InitSelectors == Start({"", ">=3.2.0"}, {"", "3.2.3"}, {"", "master"})

----------------------------------------------------------------------------
(* createSourceGitCmdRun *)

Call(c) == calls' = Append(calls, c)

\* return err
Return(e) ==
    /\ err' = e
    /\ pc' = "done"

\* lines 148-170
BuildGitRepository ==
    /\ pc = "start"
    /\ gitRepository' = NewGitRepository(sourceGitURL,
                            GitRepositoryRef(sourceGitSemver, sourceGitTag, sourceGitBranch))
    /\ pc' = "built"
    /\ UNCHANGED <<flagVars, snapshot, getErr, secret, withAuth, pair, err, exported, existing, existingSecret,
                   clusterVars, timeVars, calls, run, prev>>

\* lines 172-179: exportGit prints the object it is given, or fails
ExportGit ==
    /\ pc = "built"
    /\ export
    /\ gitRepository' = [gitRepository EXCEPT
                            !.spec.SecretRef = ExportSecretRef(sourceGitSecretRef)]
    /\ \/ exported' = gitRepository' /\ Return(NoErr)
       \/ exported' = exported /\ Return(Error("export failed"))
    /\ UNCHANGED <<flagVars, snapshot, getErr, secret, withAuth, pair, existing, existingSecret,
                   clusterVars, timeVars, calls, run, prev>>

\* lines 181-187: the context starts here; utils.KubeClient may fail
KubeClient ==
    /\ pc = "built"
    /\ ~export
    /\ \/ pc' = "auth" /\ err' = err
       \/ Return(Error("kubeconfig"))
    /\ UNCHANGED <<flagVars, snapshot, getErr, gitRepository, secret, withAuth, pair, exported, existing, existingSecret,
                   clusterVars, timeVars, calls, run, prev>>

\* the scheme is looked at before the explicit reference
AuthStrategySchemeFirst(secretRef, urlScheme, username, password) ==
    IF urlScheme = "ssh" THEN "ssh"
    ELSE IF secretRef # "" THEN "secretRef"
    ELSE IF username # "" /\ password # "" THEN "basic"
    ELSE "none"

\* the credentials are looked at before the scheme
AuthStrategyBasicFirst(secretRef, urlScheme, username, password) ==
    IF secretRef # "" THEN "secretRef"
    ELSE IF username # "" /\ password # "" THEN "basic"
    ELSE IF urlScheme = "ssh" THEN "ssh"
    ELSE "none"

\* one of username and password is enough
AuthStrategyEitherCredential(secretRef, urlScheme, username, password) ==
    IF secretRef # "" THEN "secretRef"
    ELSE IF urlScheme = "ssh" THEN "ssh"
    ELSE IF username # "" \/ password # "" THEN "basic"
    ELSE "none"

\* lines 191, 193, 233: which branch of the credential selection is taken
AuthStrategy(secretRef, urlScheme, username, password) ==
    IF secretRef # "" THEN "secretRef"
    ELSE IF urlScheme = "ssh" THEN "ssh"
    ELSE IF username # "" /\ password # "" THEN "basic"
    ELSE "none"

Strategy ==
    AuthStrategy(sourceGitSecretRef, Scheme(sourceGitURL),
                 sourceGitUsername, sourceGitPassword)

\* lines 191-192
UseSecretRef ==
    /\ pc = "auth"
    /\ Strategy = "secretRef"
    /\ withAuth' = TRUE
    /\ pc' = "genrepo"
    /\ UNCHANGED <<flagVars, snapshot, getErr, gitRepository, secret, pair, err, exported, existing, existingSecret,
                   clusterVars, timeVars, calls, run, prev>>

\* lines 193-198
GenerateKeyPair ==
    /\ pc = "auth"
    /\ Strategy = "ssh"
    /\ Call("generateKeyPair")
    /\ \/ \E p \in KeyPairs : pair' = p /\ pc' = "prompt" /\ err' = err
       \/ pair' = pair /\ Return(Error("key generation failed"))
    /\ UNCHANGED <<flagVars, snapshot, getErr, gitRepository, secret, withAuth, exported, existing, existingSecret,
                   clusterVars, timeVars, run, prev>>

\* the answer is reported, and the command goes on to the host key
PromptResultProceed(confirmed) ==
    [pc |-> "scan", err |-> IF confirmed THEN NoErr ELSE Error("aborting")]

\* lines 205-207: any error of prompt.Run, which is how promptui reports an
\* answer other than yes, ends the run with the error "aborting"
PromptResult(confirmed) ==
    IF confirmed THEN [pc |-> "scan", err |-> NoErr]
                 ELSE [pc |-> "done", err |-> Error("aborting")]

\* lines 200-207
Prompt ==
    /\ pc = "prompt"
    /\ Call("prompt")
    /\ \E confirmed \in BOOLEAN :
          /\ pc' = PromptResult(confirmed).pc
          /\ err' = PromptResult(confirmed).err
    /\ UNCHANGED <<flagVars, snapshot, getErr, gitRepository, secret, withAuth, pair, exported, existing, existingSecret,
                   clusterVars, timeVars, run, prev>>

\* lines 209-228
ScanHostKey ==
    /\ pc = "scan"
    /\ Call("scanHostKey")
    /\ \/ \E hostKey \in HostKeys :
            /\ secret' = NewSecret(SSHStringData(pair, hostKey))
            /\ pc' = "secretGet"
            /\ err' = err
       \/ secret' = secret /\ Return(Error("host key scan failed"))
    /\ UNCHANGED <<flagVars, snapshot, getErr, gitRepository, withAuth, pair, exported, existing, existingSecret,
                   clusterVars, timeVars, run, prev>>

\* lines 233-245
BasicAuth ==
    /\ pc = "auth"
    /\ Strategy = "basic"
    /\ secret' = NewSecret(BasicAuthStringData(sourceGitUsername, sourceGitPassword))
    /\ pc' = "secretGet"
    /\ UNCHANGED <<flagVars, snapshot, getErr, gitRepository, withAuth, pair, err, exported, existing, existingSecret,
                   clusterVars, timeVars, calls, run, prev>>

\* line 250: none of the branches applies
NoAuth ==
    /\ pc = "auth"
    /\ Strategy = "none"
    /\ pc' = "genrepo"
    /\ UNCHANGED <<flagVars, snapshot, getErr, gitRepository, secret, withAuth, pair, err, exported,
                   existing, existingSecret, clusterVars, timeVars, calls, run, prev>>

----------------------------------------------------------------------------
(* upsertSecret(ctx, kubeClient, secret), lines 229 and 246: read, then     *)
(* create or update.                                                        *)

UpsertSecretGet ==
    /\ pc = "secretGet"
    /\ Call("Get Secret")
    /\ IF CtxExpired(now)
         THEN Return(ErrCtx) /\ existingSecret' = existingSecret
         ELSE \/ Return(ErrAPI) /\ existingSecret' = existingSecret
              \/ /\ Find(secrets, namespace, name) = {}
                 /\ pc' = "secretCreate" /\ err' = err /\ existingSecret' = existingSecret
              \/ \E o \in Find(secrets, namespace, name) :
                    existingSecret' = o /\ pc' = "secretUpdate" /\ err' = err
    /\ UNCHANGED <<flagVars, snapshot, getErr, gitRepository, secret, withAuth, pair, exported, existing,
                   clusterVars, timeVars, run, prev>>

UpsertSecretCreate ==
    /\ pc = "secretCreate"
    /\ Call("Create Secret")
    /\ IF CtxExpired(now)
         THEN Return(ErrCtx) /\ UNCHANGED <<secrets, withAuth>>
         ELSE \/ Return(ErrAPI) /\ UNCHANGED <<secrets, withAuth>>
              \/ /\ Find(secrets, namespace, name) # {}
                 /\ Return(ErrExists) /\ UNCHANGED <<secrets, withAuth>>
              \/ /\ Find(secrets, namespace, name) = {}
                 /\ secrets' = secrets \cup {Created(secrets, secret)}
                 /\ withAuth' = TRUE
                 /\ pc' = "genrepo" /\ err' = err
    /\ UNCHANGED <<flagVars, snapshot, getErr, gitRepository, secret, pair, exported, existing,
                   existingSecret, gitrepos, disturbed, timeVars, run, prev>>

\* the Secret sent by the update: the one read, with the new fields
SecretUpdateRequest(read, new) == [read EXCEPT !.StringData = new.StringData]

UpsertSecretUpdate ==
    /\ pc = "secretUpdate"
    /\ existingSecret' = SecretUpdateRequest(existingSecret, secret)
    /\ Call("Update Secret")
    /\ IF CtxExpired(now)
         THEN Return(ErrCtx) /\ UNCHANGED <<secrets, withAuth>>
         ELSE \/ Return(ErrAPI) /\ UNCHANGED <<secrets, withAuth>>
              \/ /\ Find(secrets, namespace, name) = {}
                 /\ Return(ErrNotFound) /\ UNCHANGED <<secrets, withAuth>>
              \/ \E cur \in Find(secrets, namespace, name) :
                    IF cur.rv # existingSecret'.rv \/ cur.uid # existingSecret'.uid
                      THEN Return(ErrConflict) /\ UNCHANGED <<secrets, withAuth>>
                      ELSE /\ secrets' = (secrets \ {cur})
                                            \cup {UpdatedSecret(cur, existingSecret')}
                           /\ withAuth' = TRUE
                           /\ pc' = "genrepo" /\ err' = err
    /\ UNCHANGED <<flagVars, snapshot, getErr, gitRepository, secret, pair, exported, existing,
                   gitrepos, disturbed, timeVars, run, prev>>

\* lines 252-266
SetSecretRef ==
    /\ pc = "genrepo"
    /\ gitRepository' = [gitRepository EXCEPT
                            !.spec.SecretRef = SecretRefFor(withAuth, sourceGitSecretRef)]
    /\ pc' = "repoGet"
    /\ UNCHANGED <<flagVars, snapshot, getErr, secret, withAuth, pair, err, exported, existing, existingSecret,
                   clusterVars, timeVars, calls, run, prev>>

----------------------------------------------------------------------------
(* upsertGitRepository, lines 288-317 *)

\* a create whatever the read found
UpsertWriteAlwaysCreate(found) == "repoCreate"

\* lines 297-311: the write that follows the read
UpsertWrite(found) == IF found THEN "repoUpdate" ELSE "repoCreate"

\* the poll is started whatever upsertGitRepository returned
AfterUpsertIgnoreErr(e) == "poll"

\* lines 269-272: the error of upsertGitRepository ends the run, and only
\* after nil the command goes on to the poll
AfterUpsert(e) == IF e # NoErr THEN "done" ELSE "poll"

\* upsertGitRepository returns (namespacedName, e)
UpsertReturn(e) ==
    /\ err' = e
    /\ pc' = AfterUpsert(e)

\* lines 295-307: the read, and what follows from its result
UpsertGet ==
    /\ pc = "repoGet"
    /\ Call("Get GitRepository")
    /\ IF CtxExpired(now)
         THEN UpsertReturn(ErrCtx) /\ existing' = existing
         ELSE \/ UpsertReturn(ErrAPI) /\ existing' = existing
              \/ /\ Find(gitrepos, namespace, name) = {}
                 /\ pc' = UpsertWrite(FALSE) /\ err' = err /\ existing' = existing
              \/ \E o \in Find(gitrepos, namespace, name) :
                    existing' = o /\ pc' = UpsertWrite(TRUE) /\ err' = err
    /\ UNCHANGED <<flagVars, snapshot, getErr, gitRepository, secret, withAuth, pair, exported,
                   existingSecret, clusterVars, timeVars, run, prev>>

\* lines 299-304: Create fills the object with what the server stored
UpsertCreate ==
    /\ pc = "repoCreate"
    /\ Call("Create GitRepository")
    /\ IF CtxExpired(now)
         THEN UpsertReturn(ErrCtx) /\ UNCHANGED <<gitrepos, gitRepository, pollStart>>
         ELSE \/ UpsertReturn(ErrAPI) /\ UNCHANGED <<gitrepos, gitRepository, pollStart>>
              \/ /\ Find(gitrepos, namespace, name) # {}
                 /\ UpsertReturn(ErrExists) /\ UNCHANGED <<gitrepos, gitRepository, pollStart>>
              \/ /\ Find(gitrepos, namespace, name) = {}
                 /\ gitRepository' = Created(gitrepos, gitRepository)
                 /\ gitrepos' = gitrepos \cup {gitRepository'}
                 /\ pollStart' = now
                 /\ UpsertReturn(NoErr)
    /\ UNCHANGED <<flagVars, snapshot, getErr, secret, withAuth, pair, exported, existing, existingSecret,
                   secrets, disturbed, now, polls, run, prev>>

\* the labels of the request are added to those read, and a credential
\* reference that was read stays when the request has none
UpdateRequestMerged(read, desired) ==
    [read EXCEPT !.labels = @ \cup desired.labels,
                 !.spec = [desired.spec EXCEPT !.SecretRef =
                              IF @ = NilRef THEN read.spec.SecretRef ELSE @]]

\* lines 309-310: the object sent by the update
UpdateRequest(read, desired) ==
    [read EXCEPT !.labels = desired.labels, !.spec = desired.spec]

\* lines 309-316; line 314 assigns the parameter, which the caller does not see
UpsertUpdate ==
    /\ pc = "repoUpdate"
    /\ existing' = UpdateRequest(existing, gitRepository)
    /\ Call("Update GitRepository")
    /\ IF CtxExpired(now)
         THEN UpsertReturn(ErrCtx) /\ UNCHANGED <<gitrepos, pollStart>>
         ELSE \/ UpsertReturn(ErrAPI) /\ UNCHANGED <<gitrepos, pollStart>>
              \/ /\ Find(gitrepos, namespace, name) = {}
                 /\ UpsertReturn(ErrNotFound) /\ UNCHANGED <<gitrepos, pollStart>>
              \/ \E cur \in Find(gitrepos, namespace, name) :
                    IF cur.rv # existing'.rv \/ cur.uid # existing'.uid
                      THEN UpsertReturn(ErrConflict) /\ UNCHANGED <<gitrepos, pollStart>>
                      ELSE /\ gitrepos' = (gitrepos \ {cur})
                                            \cup {UpdatedGitRepository(cur, existing')}
                           /\ pollStart' = now
                           /\ UpsertReturn(NoErr)
    /\ UNCHANGED <<flagVars, snapshot, getErr, gitRepository, secret, withAuth, pair, exported,
                   existingSecret, secrets, disturbed, now, polls, run, prev>>

----------------------------------------------------------------------------
(* The wait for reconciliation, lines 274-286 *)

\* a Ready condition that is not False counts as ready
isGitRepositoryReadyUnlessFalse(obj) ==
    LET c == FindStatusCondition(obj.status.Conditions, ReadyCondition)
    IN  IF c # <<>> /\ c[1].Status # ConditionFalse
          THEN [done |-> TRUE, err |-> NoErr]
        ELSE IF c # <<>>
          THEN [done |-> FALSE, err |-> Errorf(c[1].Message)]
        ELSE [done |-> FALSE, err |-> NoErr]

\* the condition function of lines 327-335, on the object the Get read
isGitRepositoryReady(obj) ==
    LET c == FindStatusCondition(obj.status.Conditions, ReadyCondition)
    IN  IF c # <<>> /\ c[1].Status = ConditionTrue
          THEN [done |-> TRUE, err |-> NoErr]
        ELSE IF c # <<>> /\ c[1].Status = ConditionFalse
          THEN [done |-> FALSE, err |-> Errorf(c[1].Message)]
        ELSE [done |-> FALSE, err |-> NoErr]

\* wait.PollImmediate(pollInterval, timeout, ..), line 275: the timer of the
\* poll runs from the start of the poll, and has run out at time t
PollTimedOut(t, start) == t - start >= Timeout

\* kubeClient.Get(ctx, namespacedName, gitRepository), line 322: the answer
\* of the server is decoded INTO the object of the caller, the same object
\* at every poll (line 276).  A field the answer leaves out keeps the value
\* the object had: conditions, artifact and secretRef are left out of an
\* answer when they are empty (omitempty).
Decode(into, answer) ==
    [answer EXCEPT
        !.spec.SecretRef    = IF @ = NilRef THEN into.spec.SecretRef ELSE @,
        !.status.Conditions = IF @ = <<>> THEN into.status.Conditions ELSE @,
        !.status.Artifact   = IF @ THEN @ ELSE into.status.Artifact]

\* kubeClient.Get(ctx, namespacedName, ..) at time t: the error it returns
\* and, when that is nil, the object the server sent
GetGitRepository(t) ==
    IF CtxExpired(t)
      THEN { [err |-> ErrCtx, obj |-> NoObject] }
      ELSE { [err |-> ErrAPI, obj |-> NoObject] }
             \cup (IF Find(gitrepos, namespace, name) = {}
                     THEN { [err |-> ErrNotFound, obj |-> NoObject] }
                     ELSE { [err |-> NoErr, obj |-> o] :
                               o \in Find(gitrepos, namespace, name) })

\* a failed read is passed over and the poll goes on
ConditionFuncRetry(e, obj) ==
    IF e # NoErr THEN [done |-> FALSE, err |-> NoErr] ELSE isGitRepositoryReady(obj)

\* the wait.ConditionFunc of lines 321-336: e is the error of the Get of
\* line 322, obj the object after that Get
ConditionFunc(e, obj) ==
    IF e # NoErr THEN [done |-> FALSE, err |-> e] ELSE isGitRepositoryReady(obj)

\* the condition function deletes the object instead of reading it
PollCallDelete == "Delete GitRepository"

\* line 322: the one call the condition function makes on the API server
PollCall == "Get GitRepository"

\* the GitRepository objects of the server after it has served a call of the
\* poll: a Get leaves them as they are, a Delete removes the object named
Served(call, store) ==
    IF call = "Delete GitRepository"
      THEN store \ Find(store, namespace, name)
      ELSE store

\* one call of the condition function by wait.PollImmediate: the first at
\* once, the next ones every pollInterval, the last when the timer runs out.
\* The Get of line 322 uses the context of line 181.
Poll ==
    /\ pc = "poll"
    /\ Call(PollCall)
    /\ gitrepos' = Served(PollCall, gitrepos)
    /\ polls' = polls + 1
    /\ \E a \in GetGitRepository(now) :
          /\ getErr' = a.err
          /\ snapshot' = IF a.err = NoErr THEN a.obj ELSE snapshot
          /\ gitRepository' = IF a.err = NoErr THEN Decode(gitRepository, a.obj)
                                                ELSE gitRepository
          /\ LET r == ConditionFunc(a.err, gitRepository')
             IN  IF r.err # NoErr
                   THEN Return(r.err) /\ now' = now
                 ELSE IF r.done
                   THEN pc' = "artifact" /\ err' = err /\ now' = now
                 ELSE IF PollTimedOut(now, pollStart)
                   THEN Return(ErrWaitTimeout) /\ now' = now
                 ELSE pc' = pc /\ err' = err /\ now' = now + 1
    /\ UNCHANGED <<flagVars, secret, withAuth, pair, exported, existing, existingSecret,
                   secrets, disturbed, pollStart, run, prev>>

\* lines 279-285
CheckArtifact ==
    /\ pc = "artifact"
    /\ IF gitRepository.status.Artifact
         THEN Return(NoErr)
         ELSE Return(Error("no artifact was found"))
    /\ UNCHANGED <<flagVars, snapshot, getErr, gitRepository, secret, withAuth, pair, exported, existing, existingSecret,
                   clusterVars, timeVars, calls, run, prev>>

----------------------------------------------------------------------------
(* The environment *)

\* what the source-controller may write as the status of a GitRepository
Ready(s, m) == << [Type |-> ReadyCondition, Status |-> s, Message |-> m] >>

Statuses ==
    { [Conditions |-> c, Artifact |-> FALSE] :
        c \in {<<>>, Ready(ConditionUnknown, <<>>), Ready(ConditionTrue, <<>>)}
              \cup { Ready(ConditionFalse, m) : m \in Messages } }
    \cup { [Conditions |-> c, Artifact |-> TRUE] :
              c \in {Ready(ConditionUnknown, <<>>), Ready(ConditionTrue, <<>>)} }

\* the source-controller reconciles the GitRepository and writes its status.
\* The command sees the cluster only in its calls on the GitRepository, so
\* the writes of the controller are taken where they come between two such
\* calls: between the read and the update of the upsert, and before a read
\* of the poll.
Reconcile ==
    /\ pc \in {"repoUpdate", "poll"}
    /\ \E o \in gitrepos, st \in Statuses :
          /\ o.rv < MaxRV
          /\ st # o.status
          /\ gitrepos' = (gitrepos \ {o})
                            \cup {[o EXCEPT !.status = st, !.rv = o.rv + 1]}
    /\ disturbed' = TRUE
    /\ UNCHANGED <<flagVars, pc, localVars, secrets, timeVars, calls, run, prev>>

\* what another client of the API server writes under the command's name
OtherSecret ==
    [kind |-> "Secret", name |-> name, namespace |-> namespace,
     uid |-> 0, rv |-> 0, labels |-> {"other=1"},
     StringData |-> ("token" :> "other")]

OtherGitRepository ==
    [kind |-> "GitRepository", name |-> name, namespace |-> namespace,
     uid |-> 0, rv |-> 0, labels |-> {"other=1"},
     spec |-> [URL |-> "https://other/repo",
               Reference |-> [SemVer |-> "", Tag |-> "", Branch |-> "other"],
               SecretRef |-> NilRef],
     status |-> NoStatus]

\* another client writes between the read and the write of an upsert of the
\* command: it creates the object the read did not find, or changes the
\* object the read found
OtherWriter ==
    /\ \/ /\ pc = "secretCreate"
          /\ Find(secrets, namespace, name) = {}
          /\ secrets' = secrets \cup {Created(secrets, OtherSecret)}
          /\ gitrepos' = gitrepos
       \/ /\ pc = "secretUpdate"
          /\ \E o \in Find(secrets, namespace, name) :
                /\ o.rv < MaxRV
                /\ o.StringData # OtherSecret.StringData
                /\ secrets' = (secrets \ {o}) \cup
                       {[o EXCEPT !.StringData = OtherSecret.StringData, !.rv = o.rv + 1]}
          /\ gitrepos' = gitrepos
       \/ /\ pc = "repoCreate"
          /\ Find(gitrepos, namespace, name) = {}
          /\ gitrepos' = gitrepos \cup {Created(gitrepos, OtherGitRepository)}
          /\ secrets' = secrets
       \/ /\ pc = "repoUpdate"
          /\ \E o \in Find(gitrepos, namespace, name) :
                /\ o.rv < MaxRV
                /\ o.spec # OtherGitRepository.spec
                /\ gitrepos' = (gitrepos \ {o}) \cup
                       {[o EXCEPT !.spec = OtherGitRepository.spec, !.rv = o.rv + 1]}
          /\ secrets' = secrets
    /\ disturbed' = TRUE
    /\ UNCHANGED <<flagVars, pc, localVars, timeVars, calls, run, prev>>

\* time passes while the command prepares the credentials and the resource
Provisioning ==
    {"auth", "prompt", "scan", "secretGet", "secretCreate", "secretUpdate",
     "genrepo", "repoGet", "repoCreate", "repoUpdate"}

Tick ==
    /\ pc \in Provisioning
    /\ now < MaxDelay
    /\ now' = now + 1
    /\ UNCHANGED <<flagVars, pc, localVars, clusterVars, pollStart, polls, calls, run, prev>>

Issued(c) == \E i \in DOMAIN calls : calls[i] = c
Count(c) == Cardinality({ i \in DOMAIN calls : calls[i] = c })

\* upsertGitRepository has returned nil in this invocation (line 270)
UpsertReturned == pc \in {"poll", "artifact"} \/ (pc = "done" /\ polls > 0)
\* upsertSecret has returned nil in this invocation (lines 229, 246)
SecretPublished == withAuth /\ secret # NoObject

RepoWritten ==
    IF ~UpsertReturned THEN "none"
    ELSE IF Issued("Create GitRepository") THEN "create" ELSE "update"
SecretWritten ==
    IF ~SecretPublished THEN "none"
    ELSE IF Issued("Create Secret") THEN "create" ELSE "update"

\* the command is invoked again, with the same flags, on a cluster that only
\* the command has written to so far
Rerun ==
    /\ pc = "done"
    /\ ~disturbed
    /\ run < MaxRuns
    /\ run' = run + 1
    /\ pc' = "start"
    /\ gitRepository' = NoObject
    /\ secret' = NoObject
    /\ withAuth' = FALSE
    /\ pair' = NoPair
    /\ err' = NoErr
    /\ exported' = NoObject
    /\ existing' = NoObject
    /\ existingSecret' = NoObject
    /\ snapshot' = NoObject
    /\ getErr' = NoErr
    /\ prev' = [repoWrite |-> RepoWritten, secretWrite |-> SecretWritten,
                secrets |-> secrets]
    /\ now' = 0
    /\ pollStart' = 0
    /\ polls' = 0
    /\ calls' = <<>>
    /\ UNCHANGED <<flagVars, clusterVars>>

Next ==
    \/ BuildGitRepository
    \/ ExportGit
    \/ KubeClient
    \/ UseSecretRef
    \/ GenerateKeyPair
    \/ Prompt
    \/ ScanHostKey
    \/ BasicAuth
    \/ NoAuth
    \/ UpsertSecretGet
    \/ UpsertSecretCreate
    \/ UpsertSecretUpdate
    \/ SetSecretRef
    \/ UpsertGet
    \/ UpsertCreate
    \/ UpsertUpdate
    \/ Poll
    \/ CheckArtifact
    \/ Reconcile
    \/ OtherWriter
    \/ Tick
    \/ Rerun

Spec == Init /\ [][Next]_vars

\* the command alone, once, on a cluster nobody else writes to
NextQuiet ==
    \/ BuildGitRepository
    \/ ExportGit
    \/ KubeClient
    \/ UseSecretRef
    \/ GenerateKeyPair
    \/ Prompt
    \/ ScanHostKey
    \/ BasicAuth
    \/ NoAuth
    \/ UpsertSecretGet
    \/ UpsertSecretCreate
    \/ UpsertSecretUpdate
    \/ SetSecretRef
    \/ UpsertGet
    \/ UpsertCreate
    \/ UpsertUpdate
    \/ Poll
    \/ CheckArtifact

SpecSelectors == InitSelectors /\ [][NextQuiet]_vars

\* one invocation of the command, with the controller and the passing of time
NextOnce ==
    \/ NextQuiet
    \/ Reconcile
    \/ Tick

\* the command goes on: wait.PollImmediate calls the condition function at
\* the next tick (line 275), and the artifact check follows the poll (281)
SpecLive == Init /\ [][NextOnce]_vars /\ WF_vars(Poll) /\ WF_vars(CheckArtifact)

----------------------------------------------------------------------------
(* Properties *)

TheRepo    == Find(gitrepos, namespace, name)
TheSecrets == Find(secrets, namespace, name)

SecretWrites == {"Create Secret", "Update Secret"}
SecretCalls  == SecretWrites \cup {"Get Secret"}

Keys(o) == DOMAIN o.StringData

\* the credential selection is over and the command has gone on (line 252)
PastAuth ==
    \/ pc \in {"genrepo", "repoGet", "repoCreate", "repoUpdate", "poll", "artifact"}
    \/ pc = "done" /\ Issued("Get GitRepository")

\* the GitRepository that the command applies carries the reference ref:
\* the object handed to upsertGitRepository, the object its update sends
\* and the object in the cluster once the upsert has returned
AppliedSecretRef(ref) ==
    /\ PastAuth /\ pc # "genrepo" => gitRepository.spec.SecretRef = ref
    /\ Issued("Update GitRepository") => existing.spec.SecretRef = ref
    /\ UpsertReturned => \A o \in TheRepo : o.spec.SecretRef = ref

\* C1: in a run that is not an export and is given --secret-ref, whatever
\* the URL scheme, username and password: no key pair is generated, no host
\* key is scanned, no Secret is read, built or written by the run, and the
\* GitRepository that is applied refers to the given name.
C1_ExplicitSecretRef ==
    (~export /\ sourceGitSecretRef # "") =>
        /\ ~Issued("generateKeyPair")
        /\ ~Issued("scanHostKey")
        /\ \A c \in SecretCalls : ~Issued(c)
        /\ pair = NoPair
        /\ secret = NoObject
        /\ secrets = prev.secrets
        /\ AppliedSecretRef(LocalObjectReference(sourceGitSecretRef))

C1_Witness ==
    /\ ~export
    /\ sourceGitSecretRef # ""
    /\ Scheme(sourceGitURL) = "ssh"
    /\ sourceGitUsername # "" /\ sourceGitPassword # ""
    /\ UpsertReturned

Mixed(o) ==
    /\ Keys(o) \cap GeneratedKeys # {}
    /\ Keys(o) \cap BasicAuthKeys # {}

\* C2: in a run on an ssh URL every write of a Secret comes after a key
\* pair generation and after a host key scan of the same run; and no
\* Secret the command builds, sends or leaves in the cluster holds both
\* fields of a generated key and fields of basic authentication.
C2_SSHOrderAndNoMix ==
    /\ Scheme(sourceGitURL) = "ssh" =>
          \A i \in DOMAIN calls :
              calls[i] \in SecretWrites =>
                  /\ \E j \in 1..(i - 1) : calls[j] = "generateKeyPair"
                  /\ \E j \in 1..(i - 1) : calls[j] = "scanHostKey"
    /\ secret # NoObject => ~Mixed(secret)
    /\ Issued("Update Secret") => ~Mixed(existingSecret)
    /\ SecretPublished => \A o \in TheSecrets : ~Mixed(o)

C2_Witness ==
    /\ Scheme(sourceGitURL) = "ssh"
    /\ sourceGitUsername # "" /\ sourceGitPassword # ""
    /\ Issued("Update Secret")
    /\ SecretPublished
    /\ run = 1
    /\ OldSecret \in prev.secrets

\* C3: in a run on an ssh URL without --secret-ref in which key generation,
\* the prompt, the host key scan and the upsert of the Secret succeed, the
\* Secret has exactly the keys identity, identity.pub and known_hosts, has
\* the name and namespace of the GitRepository, and the GitRepository that
\* is applied refers to a Secret of its own name.
C3_SSHSecret ==
    (~export /\ Strategy = "ssh" /\ SecretPublished) =>
        /\ Keys(secret) = GeneratedKeys
        /\ secret.StringData["identity"] = pair.PrivateKey
        /\ secret.StringData["identity.pub"] = pair.PublicKey
        /\ secret.StringData["known_hosts"] \in HostKeys
        /\ secret.name = gitRepository.name
        /\ secret.namespace = gitRepository.namespace
        /\ Issued("Update Secret") => Keys(existingSecret) = GeneratedKeys
        /\ Cardinality(TheSecrets) = 1
        /\ \A o \in TheSecrets : o.StringData = secret.StringData
        /\ AppliedSecretRef(LocalObjectReference(gitRepository.name))

C3_Witness ==
    /\ ~export
    /\ Strategy = "ssh"
    /\ SecretPublished
    /\ UpsertReturned
    /\ \E o \in TheRepo : o.spec.SecretRef = LocalObjectReference(name)

BothCredentials == sourceGitUsername # "" /\ sourceGitPassword # ""

\* C4: in a run without --secret-ref on a URL that is not ssh: a Secret is
\* read or written only if username and password are both given; once the
\* credential selection is over, a Secret has been published exactly if
\* both are given, and it has exactly the keys username and password with
\* the given values; if one of them is empty no Secret is built or written
\* and the GitRepository that is applied has no credential reference.
C4_BasicAuth ==
    (~export /\ sourceGitSecretRef = "" /\ Scheme(sourceGitURL) # "ssh") =>
        /\ (\E c \in SecretCalls : Issued(c)) => BothCredentials
        /\ PastAuth => (SecretPublished <=> BothCredentials)
        /\ SecretPublished =>
              /\ Keys(secret) = BasicAuthKeys
              /\ secret.StringData["username"] = sourceGitUsername
              /\ secret.StringData["password"] = sourceGitPassword
              /\ \A o \in TheSecrets : o.StringData = secret.StringData
              /\ AppliedSecretRef(LocalObjectReference(name))
        /\ ~BothCredentials =>
              /\ secret = NoObject
              /\ secrets = prev.secrets
              /\ AppliedSecretRef(NilRef)

C4_Witness ==
    /\ ~export /\ sourceGitSecretRef = "" /\ Scheme(sourceGitURL) # "ssh"
    /\ BothCredentials
    /\ SecretPublished
    /\ UpsertReturned

C4_WitnessNone ==
    /\ ~export /\ sourceGitSecretRef = "" /\ Scheme(sourceGitURL) # "ssh"
    /\ sourceGitUsername # "" /\ sourceGitPassword = ""
    /\ UpsertReturned

Selected(ref) == { f \in {"SemVer", "Tag", "Branch"} : ref[f] # "" }

SelectorOf(o) ==
    LET ref == o.spec.Reference
    IN  /\ Cardinality(Selected(ref)) <= 1
        /\ ref.SemVer # "" <=> sourceGitSemver # ""
        /\ ref.Tag # "" <=> (sourceGitSemver = "" /\ sourceGitTag # "")
        /\ ref.Branch # "" => (sourceGitSemver = "" /\ sourceGitTag = "")
        /\ ref.SemVer \in {"", sourceGitSemver}
        /\ ref.Tag \in {"", sourceGitTag}
        /\ ref.Branch \in {"", sourceGitBranch}

\* C5: for every combination of --tag-semver, --tag and --branch the
\* GitRepository the command builds, exports or applies has at most one of
\* semver, tag and branch set: semver exactly if --tag-semver is given, tag
\* exactly if --tag-semver is empty and --tag is given, branch only if both
\* are empty.
C5_OneSelector ==
    /\ pc \in {"built", "auth", "prompt", "scan", "secretGet", "secretCreate",
               "secretUpdate", "genrepo", "repoGet", "repoCreate", "repoUpdate"}
          => SelectorOf(gitRepository)
    /\ exported # NoObject => SelectorOf(exported)
    /\ Issued("Update GitRepository") => SelectorOf(existing)
    /\ UpsertReturned => \A o \in TheRepo : SelectorOf(o)

C5_Witness ==
    /\ sourceGitSemver # "" /\ sourceGitTag # "" /\ sourceGitBranch # ""
    /\ UpsertReturned
    /\ \E o \in TheRepo : Selected(o.spec.Reference) = {"SemVer"}


\* the spec of the Source Descriptor the flags describe
DesiredSpec ==
    [URL |-> sourceGitURL,
     Reference |-> GitRepositoryRef(sourceGitSemver, sourceGitTag, sourceGitBranch),
     SecretRef |-> SecretRefFor(withAuth, sourceGitSecretRef)]

RepoWrites == Count("Create GitRepository") + Count("Update GitRepository")

\* C6: as long as nobody else writes to the cluster, one upsert of the
\* GitRepository issues one write at most; when it has returned there is
\* exactly one GitRepository of that namespace and name, with the spec and
\* labels of the input; the write was a create if the read found nothing,
\* and otherwise an update that left the uid as read.  A second invocation
\* with the same flags, after one whose upsert returned, issues no create
\* and is not refused by the API server.
C6_UpsertTwice ==
    ~disturbed =>
        /\ RepoWrites <= 1
        /\ UpsertReturned =>
              /\ RepoWrites = 1
              /\ Cardinality(TheRepo) = 1
              /\ \A o \in TheRepo :
                    /\ o.spec = DesiredSpec
                    /\ o.labels = sourceLabels
                    /\ existing # NoObject => o.uid = existing.uid
              /\ existing = NoObject <=> Issued("Create GitRepository")
              /\ existing # NoObject <=> Issued("Update GitRepository")
        /\ (run > 1 /\ prev.repoWrite # "none") =>
              /\ ~Issued("Create GitRepository")
              /\ err \notin {ErrExists, ErrConflict, ErrNotFound}

C6_Witness ==
    /\ ~disturbed
    /\ run = 2
    /\ prev.repoWrite = "create"
    /\ UpsertReturned
    /\ Count("Update GitRepository") = 1

\* C7: when upsertSecret has returned there is exactly one Secret of that
\* namespace and name, its fields are exactly the given ones, and if a
\* Secret was there before, its uid and labels are as they were read.  A
\* second upsert of the same fields, after one that returned, leaves the
\* Secrets of the cluster as the first one left them.
C7_SecretUpsertTwice ==
    /\ SecretPublished =>
          /\ Cardinality(TheSecrets) = 1
          /\ \A o \in TheSecrets :
                /\ o.StringData = secret.StringData
                /\ Issued("Create Secret") => o.labels = secret.labels
                /\ Issued("Update Secret") =>
                      /\ o.uid = existingSecret.uid
                      /\ o.labels = existingSecret.labels
    /\ (/\ run > 1
        /\ prev.secretWrite # "none"
        /\ SecretPublished
        /\ \A o \in prev.secrets : o.StringData = secret.StringData)
          => secrets = prev.secrets

C7_Witness ==
    /\ run = 2
    /\ prev.secretWrite = "update"
    /\ OldSecret \notin secrets
    /\ SecretPublished
    /\ Issued("Update Secret")
    /\ secrets = prev.secrets

\* the status of the Ready condition of an object, "absent" if it has none
ReadyStatus(o) ==
    LET c == FindStatusCondition(o.status.Conditions, ReadyCondition)
    IN  IF c = <<>> THEN "absent" ELSE c[1].Status

ReadyMessage(o) ==
    FindStatusCondition(o.status.Conditions, ReadyCondition)[1].Message

Undecided == {"absent", ConditionUnknown}

\* C8: the poll goes on only while every object read so far had the Ready
\* condition absent or Unknown; it ends as ready only on an object whose
\* Ready condition is True, and once such an object is read the poll ends
\* as ready at that read.
C8_ReadyAtFirstTrue ==
    /\ pc = "poll" /\ polls > 0 => ReadyStatus(gitRepository) \in Undecided
    /\ pc = "artifact" => polls > 0 /\ ReadyStatus(gitRepository) = ConditionTrue
    /\ pc = "done" /\ polls > 0 /\ err = NoErr
          => ReadyStatus(gitRepository) = ConditionTrue
    /\ pc = "done" /\ polls > 0 /\ ReadyStatus(gitRepository) = ConditionTrue
          => err.kind \in {"nil", "no artifact was found"}

C8_Witness ==
    /\ pc = "artifact"
    /\ polls = 3
    /\ Issued("Create GitRepository")
    /\ ReadyStatus(gitRepository) = ConditionTrue

\* C9: the poll does not go on after an object whose Ready condition is
\* False was read: the run ends there, and its error is the message of that
\* condition, character for character.
C9_FailedVerbatim ==
    /\ pc = "poll" /\ polls > 0 => ReadyStatus(gitRepository) # ConditionFalse
    /\ pc = "done" /\ polls > 0 /\ ReadyStatus(gitRepository) = ConditionFalse
          => /\ err.kind = "condition"
             /\ err.msg = ReadyMessage(gitRepository)

\* C10: a run whose reads of the GitRepository all succeeded at the API
\* server and all showed the Ready condition absent or Unknown ends with
\* wait.ErrWaitTimeout, however long the steps before the poll took.
C10_TimeoutOutcome ==
    (/\ pc = "done"
     /\ polls > 0
     /\ ReadyStatus(gitRepository) \in Undecided
     /\ err \notin {ErrAPI, ErrNotFound})
        => err = ErrWaitTimeout

\* the poll has ended as ready: its last read succeeded and wait.PollImmediate
\* returned nil (line 278)
PollerReady == pc = "done" /\ polls > 0 /\ err.kind \in {"nil", "no artifact was found"}

\* C11: when the poll has ended as ready, the run ends with the error "no
\* artifact was found" if the object the server sent at that read has no
\* artifact, and ends with nil only if that object has one.
C11_ArtifactOfSnapshot ==
    PollerReady =>
        /\ ReadyStatus(snapshot) = ConditionTrue
        /\ ~snapshot.status.Artifact => err = Error("no artifact was found")
        /\ err = NoErr => snapshot.status.Artifact

ReadErrors == {ErrCtx, ErrAPI, ErrNotFound}

\* C12: when a Get of the poll has returned an error the run has ended at
\* that call with that error: the command is not polling any more, no call
\* was issued after that Get, and the outcome is not ready, not the message
\* of a Ready=False condition, not a missing artifact and not the timeout
\* of the poll.
C12_ReadErrorFatal ==
    getErr # NoErr =>
        /\ getErr \in ReadErrors
        /\ pc = "done"
        /\ err = getErr
        /\ calls[Len(calls)] = "Get GitRepository"
        /\ polls = Count("Get GitRepository") - 1
        /\ err.kind \notin {"nil", "condition", "no artifact was found"}
        /\ err # ErrWaitTimeout

C12_Witness ==
    /\ pc = "done"
    /\ getErr = ErrAPI
    /\ polls = 3
    /\ ReadyStatus(gitRepository) = ConditionUnknown

\* C13: the update that upsertGitRepository issues after its read found an
\* object is its only one, and the object it sends has the namespace, name,
\* uid, resourceVersion and status of the object read, and the labels and
\* the spec of the GitRepository handed to upsertGitRepository, whatever
\* labels and spec were read.
C13_UpdateCarriesRead ==
    [][ (pc = "repoUpdate" /\ calls' # calls) =>
            /\ calls' = Append(calls, "Update GitRepository")
            /\ ~Issued("Update GitRepository")
            /\ existing.kind = "GitRepository"
            /\ existing'.namespace = existing.namespace
            /\ existing'.name = existing.name
            /\ existing'.uid = existing.uid
            /\ existing'.rv = existing.rv
            /\ existing'.status = existing.status
            /\ existing'.labels = gitRepository.labels
            /\ existing'.spec = gitRepository.spec
            /\ gitRepository.labels = sourceLabels
            /\ gitRepository.spec = DesiredSpec
      ]_vars

C13_Witness ==
    /\ run = 1
    /\ Issued("Update GitRepository")
    /\ UpsertReturned
    /\ existing.uid = OldGitRepository.uid
    /\ existing.status = OldGitRepository.status
    /\ existing.labels = sourceLabels
    /\ existing.spec = DesiredSpec
    /\ existing.spec.SecretRef = NilRef

\* the errors with which the API server refuses a write that lost a race
Rejections == {ErrExists, ErrConflict}

GitRepositoryWrites == {"Create GitRepository", "Update GitRepository"}

\* in the calls of the invocation, every write of a kind follows at once on
\* the read of that kind
WriteFollowsRead(writes, read) ==
    \A i \in DOMAIN calls :
        calls[i] \in writes => i > 1 /\ calls[i - 1] = read

OneReadOneWrite ==
    /\ Count("Get Secret") <= 1
    /\ Count("Create Secret") + Count("Update Secret") <= 1
    /\ WriteFollowsRead(SecretWrites, "Get Secret")
    /\ RepoWrites <= 1
    /\ WriteFollowsRead(GitRepositoryWrites, "Get GitRepository")
    /\ Count("Get GitRepository") <= polls + 1

\* the invocation ended when the API server refused its write: that write is
\* its last call, and the poll was not started
EndedAtRejection ==
    err \in Rejections =>
        /\ pc = "done"
        /\ calls[Len(calls)] \in SecretWrites \cup GitRepositoryWrites
        /\ polls = 0
        /\ snapshot = NoObject

\* C14: while another client writes between the read and the write of an
\* upsert, an upsert of the Secret and an upsert of the GitRepository issue
\* one read and after it one write at most; a write that the API server
\* refuses (the object was created, or its resourceVersion moved, after the
\* read) leaves the objects of the cluster as the other client wrote them,
\* its error is the error of the run, it is the last call of the run and
\* the poll is not started.
C14_NoRetryOnConflict ==
    [][ /\ OneReadOneWrite'
        /\ EndedAtRejection'
        /\ (err = NoErr /\ err' \in Rejections) =>
              /\ secrets' = secrets
              /\ gitrepos' = gitrepos
              /\ Len(calls') = Len(calls) + 1
      ]_vars

C14_Witness ==
    /\ disturbed
    /\ pc = "done"
    /\ err = ErrExists
    /\ calls[Len(calls)] = "Create GitRepository"
    /\ \E o \in TheRepo : o.spec = OtherGitRepository.spec /\ o.labels = OtherGitRepository.labels

C14_WitnessConflict ==
    /\ disturbed
    /\ pc = "done"
    /\ err = ErrConflict
    /\ calls[Len(calls)] = "Update Secret"
    /\ \E o \in TheSecrets : o.StringData = OtherSecret.StringData

\* C15: once upsertGitRepository has returned nil, whatever the poll and the
\* artifact check come to: every call after the write of the GitRepository
\* is a Get of it, the cluster holds exactly one GitRepository of the
\* command's name with the spec and labels the run wrote, and if the run
\* published a Secret the cluster holds it with the fields the run wrote.
C15_NoRollback ==
    UpsertReturned =>
        /\ \A i, j \in DOMAIN calls :
              (calls[i] \in GitRepositoryWrites /\ j > i) => calls[j] = "Get GitRepository"
        /\ Cardinality(TheRepo) = 1
        /\ \A o \in TheRepo : o.spec = DesiredSpec /\ o.labels = sourceLabels
        /\ SecretPublished =>
              /\ Cardinality(TheSecrets) = 1
              /\ \A o \in TheSecrets : o.StringData = secret.StringData

C15_Witness ==
    /\ pc = "done"
    /\ polls = 2
    /\ err.kind = "condition"
    /\ SecretPublished
    /\ Issued("Create Secret")
    /\ Issued("Create GitRepository")
    /\ \E o \in TheRepo : o.spec = DesiredSpec
    /\ \E o \in TheSecrets : o.StringData = secret.StringData

C15_WitnessArtifactMissing ==
    /\ pc = "done"
    /\ err = Error("no artifact was found")
    /\ Issued("Update GitRepository")
    /\ \E o \in TheRepo : o.spec = DesiredSpec

C15_WitnessReadError ==
    /\ pc = "done"
    /\ polls > 0
    /\ getErr = ErrCtx
    /\ SecretPublished
    /\ \E o \in TheRepo : o.spec = DesiredSpec

\* C16: a run that ended with the error "aborting" is a run on an ssh URL
\* that generated a key pair and asked once; the prompt is its last call,
\* so no host key was scanned and no Secret or GitRepository was read or
\* written; no Secret was built, and the Secrets of the cluster are those
\* the run started with.  No run asks twice.
C16_DeclineCancels ==
    /\ Count("prompt") <= 1
    /\ err = Error("aborting") =>
          /\ pc = "done"
          /\ Strategy = "ssh"
          /\ calls = <<"generateKeyPair", "prompt">>
          /\ pair \in KeyPairs
          /\ secret = NoObject
          /\ ~withAuth
          /\ secrets = prev.secrets
          /\ polls = 0

C16_Witness ==
    /\ err = Error("aborting")
    /\ pc = "done"
    /\ pair \in KeyPairs
    /\ Issued("prompt")
    /\ secrets = {}
    /\ gitrepos = {}

\* the poll has been started in this invocation
Polling == pc \in {"poll", "artifact"} \/ (pc = "done" /\ polls > 0)

\* what wait.PollImmediate returned, by the error of the run
PollOutcome ==
    IF err.kind \in {"nil", "no artifact was found"} THEN "Ready"
    ELSE IF err.kind = "condition" THEN "Failed"
    ELSE IF err = ErrWaitTimeout THEN "Timeout"
    ELSE IF err \in ReadErrors THEN "ReadError"
    ELSE "none"

\* C17: the poll, once started, ends, also when no Ready condition is ever
\* set: the run comes to its end with one of the outcomes ready, failed,
\* timeout and read error.  Counted in poll intervals, the poll is never
\* going on after the deadline of the context, and the condition function
\* is called once per interval from the start of the poll to that deadline
\* at most.
C17_PollTerminates ==
    /\ [](Polling => /\ now <= Timeout
                     /\ polls <= Timeout - pollStart + 1)
    /\ [](pc = "done" /\ polls > 0 => PollOutcome # "none")
    /\ (pc = "poll") ~> (pc = "done" /\ polls > 0)

C17_Witness ==
    /\ ~disturbed
    /\ pc = "done"
    /\ polls = Timeout + 1
    /\ Issued("Create GitRepository")
    /\ ReadyStatus(gitRepository) = "absent"
    /\ PollOutcome = "ReadError"

ProvisioningCalls == {"generateKeyPair", "prompt", "scanHostKey"} \cup SecretCalls

GitRepositoryCalls == GitRepositoryWrites \cup {"Get GitRepository"}

\* the credential references of the GitRepository objects the run has sent
\* in a create or an update
WrittenSecretRefs ==
    (IF Issued("Create GitRepository") THEN {gitRepository.spec.SecretRef} ELSE {})
    \cup (IF Issued("Update GitRepository") THEN {existing.spec.SecretRef} ELSE {})

\* C18: a run whose last call is a key generation, a prompt, a host key scan
\* or a call on the Secret and that has ended, has ended with the error of
\* that call and has issued no call on the GitRepository.  Every call on the
\* GitRepository comes after all calls of the credential selection, and
\* after a Secret was published if the selection was ssh or basic.  The
\* credential reference of a GitRepository that is written is nil, or the
\* name given by --secret-ref, or the name of the Secret this run has
\* published, which is then in the cluster with the fields of the run.
C18_CredentialsFirst ==
    /\ (pc = "done" /\ calls # <<>> /\ calls[Len(calls)] \in ProvisioningCalls) =>
          /\ err # NoErr
          /\ \A c \in GitRepositoryCalls : ~Issued(c)
    /\ err.kind \in {"key generation failed", "host key scan failed"} =>
          /\ pc = "done"
          /\ \A c \in GitRepositoryCalls \cup SecretCalls : ~Issued(c)
          /\ secrets = prev.secrets
    /\ \A i, j \in DOMAIN calls :
          (calls[i] \in GitRepositoryCalls /\ calls[j] \in ProvisioningCalls) => j < i
    /\ (\E c \in GitRepositoryCalls : Issued(c)) =>
          /\ Strategy \in {"ssh", "basic"} =>
                SecretPublished /\ \E c \in SecretWrites : Issued(c)
          /\ Strategy = "ssh" => Issued("generateKeyPair") /\ Issued("scanHostKey")
    /\ \A ref \in WrittenSecretRefs :
          \/ ref = NilRef /\ Strategy = "none"
          \/ ref = LocalObjectReference(sourceGitSecretRef) /\ sourceGitSecretRef # ""
          \/ /\ SecretPublished
             /\ ref = LocalObjectReference(secret.name)
             /\ \E c \in SecretWrites : Issued(c)
             /\ \E o \in TheSecrets : o.StringData = secret.StringData

C18_Witness ==
    /\ Strategy = "ssh"
    /\ Issued("Create GitRepository")
    /\ UpsertReturned
    /\ WrittenSecretRefs = {LocalObjectReference(name)}
    /\ \E o \in TheSecrets : Keys(o) = GeneratedKeys

C18_WitnessScanFailed ==
    /\ pc = "done"
    /\ err.kind = "host key scan failed"
    /\ gitrepos = {}

C18_WitnessSecretError ==
    /\ pc = "done"
    /\ Strategy = "basic"
    /\ err = ErrAPI
    /\ calls = <<"Get Secret", "Update Secret">>

\* C19: a run with --export makes no call at all: no key generation, no
\* prompt, no host key scan, no call on a Secret or on the GitRepository,
\* no poll; it builds no Secret, and the cluster stays as it was.  The
\* GitRepository it exports has a credential reference exactly if
\* --secret-ref is given, and then of that name, whatever the URL scheme,
\* username and password.  A run without --export exports nothing.
C19_ExportOnly ==
    /\ export =>
          /\ calls = <<>>
          /\ polls = 0
          /\ pair = NoPair
          /\ secret = NoObject
          /\ ~withAuth
          /\ ~disturbed
          /\ secrets = prev.secrets
          /\ gitrepos \in { {}, {OldGitRepository} }
          /\ pc \in {"start", "built", "done"}
          /\ (pc = "done" /\ err = NoErr) =>
                /\ exported # NoObject
                /\ exported.spec.URL = sourceGitURL
                /\ exported.spec.SecretRef # NilRef <=> sourceGitSecretRef # ""
                /\ sourceGitSecretRef # "" =>
                      exported.spec.SecretRef = LocalObjectReference(sourceGitSecretRef)
    /\ ~export => exported = NoObject

C19_Witness ==
    /\ export
    /\ pc = "done"
    /\ run = 2
    /\ Scheme(sourceGitURL) = "ssh"
    /\ BothCredentials
    /\ sourceGitSecretRef = ""
    /\ exported # NoObject
    /\ exported.spec.SecretRef = NilRef
    /\ secrets = {OldSecret}

C19_WitnessRef ==
    /\ export
    /\ pc = "done"
    /\ sourceGitSecretRef # ""
    /\ exported # NoObject
    /\ exported.spec.SecretRef = LocalObjectReference(sourceGitSecretRef)

====
